---- MODULE Spec2Model ----
(***************************************************************************)
(* Model of the two front ends of the GPlay Scraper repository:            *)
(*   api/index.py        the synchronous request/response handler          *)
(*   examples/ui_app.py  the Tkinter front end and its worker threads      *)
(* Python strings are sequences of one-character strings, so that split,   *)
(* strip, lower and int are computed as the interpreter computes them.     *)
(***************************************************************************)
EXTENDS Integers, Sequences, FiniteSets, TLC

VARIABLES
    Config,       \* gplay_scraper.config.Config, as imported by both files
    pc,           \* api: position of the transport: "idle", "received", "responded"
    request,      \* api: the request handed to handler(request)
    reads,        \* api: the query parameters read by args.get during the dispatch
    calls,        \* api: the scraper operations invoked during the dispatch
    outcome,      \* api: how the scraper call of the dispatch ended, NoCall if none was made
    response,     \* api: what handler gave the transport: a response or an exception
    raw,          \* parsing: the raw string under parsing
    parsed,       \* parsing: the results of the parsing functions on raw
    status_var,   \* ui: the text of the status bar
    result_text,  \* ui: the result viewer, the pretty-printed payloads it holds
    runs,         \* ui: the runs started by _run_async, one worker thread each
    after_queue,  \* ui: the callbacks root.after(0, ...) has scheduled
    dialog        \* ui: the last message box shown

apivars == <<pc, request, reads, calls, outcome, response>>
parsevars == <<raw, parsed>>
uivars == <<status_var, result_text, runs, after_queue, dialog>>
vars == <<Config, apivars, parsevars, uivars>>

----------------------------------------------------------------------------
(* Bounds *)

\* the most query parameters a request carries
MaxParams == 3
\* the longest raw string handed to the parsing functions
MaxRawLen == 4
\* the most runs the user starts in the interactive front end
MaxRuns == 2

----------------------------------------------------------------------------
(* Python values *)

\* None: a value no string (sequence of characters) is equal to
None == <<"<None>">>

\* `x is None` in place of `not x`: the empty string passes
Falsy_NoneOnly(x) == x = None

\* `not x` for x a str or None
Falsy(x) == x = None \/ x = <<>>

Whitespace == {" "}

Digit == [c \in {"0", "1", "2", "3", "4", "5", "6", "7", "8", "9"} |->
            CASE c = "0" -> 0 [] c = "1" -> 1 [] c = "2" -> 2 [] c = "3" -> 3
              [] c = "4" -> 4 [] c = "5" -> 5 [] c = "6" -> 6 [] c = "7" -> 7
              [] c = "8" -> 8 [] c = "9" -> 9]

LowerChar(c) ==
    CASE c = "A" -> "a" [] c = "P" -> "p" [] c = "S" -> "s" [] c = "E" -> "e"
      [] c = "R" -> "r" [] c = "C" -> "c" [] c = "H" -> "h" [] c = "F" -> "f"
      [] c = "O" -> "o" [] c = "D" -> "d" [] c = "V" -> "v" [] c = "I" -> "i"
      [] c = "W" -> "w" [] c = "L" -> "l"
      [] OTHER -> c

\* the lookup without the lower-casing
lower_Identity(s) == s

\* str.lower()
lower(s) == [i \in DOMAIN s |-> LowerChar(s[i])]

RECURSIVE lstrip(_)
lstrip(s) == IF s # <<>> /\ Head(s) \in Whitespace THEN lstrip(Tail(s)) ELSE s

RECURSIVE rstrip(_)
rstrip(s) ==
    IF s # <<>> /\ s[Len(s)] \in Whitespace THEN rstrip(SubSeq(s, 1, Len(s) - 1)) ELSE s

\* lstrip in place of strip: trailing whitespace stays
strip_LeftOnly(s) == lstrip(s)

\* str.strip()
strip(s) == rstrip(lstrip(s))

\* str.split(","): the segments between the commas, the empty ones included
RECURSIVE split(_)
split(s) ==
    IF \E i \in DOMAIN s : s[i] = ","
    THEN LET i == CHOOSE j \in DOMAIN s :
                      s[j] = "," /\ \A k \in 1..(j - 1) : s[k] # ","
         IN  <<SubSeq(s, 1, i - 1)>> \o split(SubSeq(s, i + 1, Len(s)))
    ELSE <<s>>

\* [f.strip() for f in segs if f]: a segment of blanks is kept, as ""
RECURSIVE StripNonEmpty_KeepBlank(_)
StripNonEmpty_KeepBlank(segs) ==
    IF segs = <<>> THEN <<>>
    ELSE IF Head(segs) # <<>>
         THEN <<strip(Head(segs))>> \o StripNonEmpty_KeepBlank(Tail(segs))
         ELSE StripNonEmpty_KeepBlank(Tail(segs))

\* [f.strip() for f in segs if f.strip()]
RECURSIVE StripNonEmpty(_)
StripNonEmpty(segs) ==
    IF segs = <<>> THEN <<>>
    ELSE IF strip(Head(segs)) # <<>>
         THEN <<strip(Head(segs))>> \o StripNonEmpty(Tail(segs))
         ELSE StripNonEmpty(Tail(segs))

\* the value of a string of decimal digits
RECURSIVE DigitsValue(_)
DigitsValue(ds) ==
    IF ds = <<>> THEN 0
    ELSE 10 * DigitsValue(SubSeq(ds, 1, Len(ds) - 1)) + Digit[ds[Len(ds)]]

\* int(str): optional surrounding whitespace, an optional sign, decimal digits
\* with single underscores between them; anything else is a ValueError
IntBody(s) == IF strip(s) # <<>> /\ Head(strip(s)) \in {"+", "-"}
              THEN Tail(strip(s)) ELSE strip(s)

IntNegative(s) == strip(s) # <<>> /\ Head(strip(s)) = "-"

IntValid(s) ==
    LET b == IntBody(s) IN
    /\ b # <<>>
    /\ \A i \in DOMAIN b : b[i] \in DOMAIN Digit \/ b[i] = "_"
    /\ b[1] # "_" /\ b[Len(b)] # "_"
    /\ \A i \in 1..(Len(b) - 1) : ~(b[i] = "_" /\ b[i + 1] = "_")

IntOf(s) ==
    LET v == DigitsValue(SelectSeq(IntBody(s), LAMBDA c : c # "_"))
    IN  IF IntNegative(s) THEN 0 - v ELSE v

----------------------------------------------------------------------------
(* api/index.py: the parameter normalizer *)

_parse_fields(r) == IF Falsy(r) THEN <<>> ELSE StripNonEmpty(split(r))

\* the fallback of the except branch lost: 0 in place of the default
_parse_int_ZeroOnError(value, default) ==
    IF Falsy(value) THEN default
    ELSE IF IntValid(value) THEN IntOf(value) ELSE 0

_parse_int(value, default) ==
    IF Falsy(value) THEN default
    ELSE IF IntValid(value) THEN IntOf(value) ELSE default

\* args.get(key) and args.get(key, default)
Get(args, key) == IF key \in DOMAIN args THEN args[key] ELSE None

GetDefault(args, key, default) == IF key \in DOMAIN args THEN args[key] ELSE default

----------------------------------------------------------------------------
(* The external scraper: an opaque service whose call returns a payload or *)
(* raises.  svc is the behaviour it shows on the call.                     *)

Payloads == {[v |-> "list-of-3", json |-> TRUE], [v |-> "datetime", json |-> FALSE]}

Messages == {"not found", "Unexpected server error."}

ServiceBehaviours ==
    {[kind |-> "return", data |-> p] : p \in Payloads}
    \cup {[kind |-> "raise", type |-> t, msg |-> m] :
              t \in {"GPlayScraperError", "Exception"}, m \in Messages}

NoCall == [kind |-> "none"]

\* what a handler function gives handler(): a (status, payload) pair or the
\* exception the scraper raised, with the operations it invoked
Returned(st, pl, cs, rd) ==
    [kind |-> "return", status |-> st, payload |-> pl, calls |-> cs, reads |-> rd]

Ended(svc, cs, rd) ==
    IF svc.kind = "return"
    THEN Returned(200, [data |-> svc.data], cs, rd)
    ELSE [kind |-> "raise", type |-> svc.type, msg |-> svc.msg, calls |-> cs, reads |-> rd]

_handle_app(args, cfg, svc) ==
    LET app_id  == Get(args, "appId")
        lang    == GetDefault(args, "lang", cfg.DEFAULT_LANGUAGE)
        country == GetDefault(args, "country", cfg.DEFAULT_COUNTRY)
        assets  == IF Falsy(Get(args, "assets")) THEN None ELSE Get(args, "assets")
        fields  == _parse_fields(Get(args, "fields"))
        rd      == {"appId", "lang", "country", "assets", "fields"}
    IN  IF Falsy(app_id)
        THEN Returned(400, [error |-> "Missing required 'appId' parameter."], <<>>, {"appId"})
        ELSE IF fields # <<>>
             THEN Ended(svc, <<[op |-> "app_get_fields", id |-> app_id, fields |-> fields,
                                lang |-> lang, country |-> country, assets |-> assets]>>, rd)
             ELSE Ended(svc, <<[op |-> "app_analyze", id |-> app_id,
                                lang |-> lang, country |-> country, assets |-> assets]>>, rd)

_handle_search(args, cfg, svc) ==
    LET query   == Get(args, "query")
        count   == _parse_int(Get(args, "count"), cfg.DEFAULT_SEARCH_COUNT)
        lang    == GetDefault(args, "lang", cfg.DEFAULT_LANGUAGE)
        country == GetDefault(args, "country", cfg.DEFAULT_COUNTRY)
        fields  == _parse_fields(Get(args, "fields"))
        rd      == {"query", "count", "lang", "country", "fields"}
    IN  IF Falsy(query)
        THEN Returned(400, [error |-> "Missing required 'query' parameter."], <<>>, {"query"})
        ELSE IF fields # <<>>
             THEN Ended(svc, <<[op |-> "search_get_fields", id |-> query, fields |-> fields,
                                count |-> count, lang |-> lang, country |-> country]>>, rd)
             ELSE Ended(svc, <<[op |-> "search_analyze", id |-> query,
                                count |-> count, lang |-> lang, country |-> country]>>, rd)

_handle_reviews(args, cfg, svc) ==
    LET app_id  == Get(args, "appId")
        count   == _parse_int(Get(args, "count"), cfg.DEFAULT_REVIEWS_COUNT)
        lang    == GetDefault(args, "lang", cfg.DEFAULT_LANGUAGE)
        country == GetDefault(args, "country", cfg.DEFAULT_COUNTRY)
        sort    == GetDefault(args, "sort", cfg.DEFAULT_REVIEWS_SORT)
        fields  == _parse_fields(Get(args, "fields"))
        rd      == {"appId", "count", "lang", "country", "sort", "fields"}
    IN  IF Falsy(app_id)
        THEN Returned(400, [error |-> "Missing required 'appId' parameter."], <<>>, {"appId"})
        ELSE IF fields # <<>>
             THEN Ended(svc, <<[op |-> "reviews_get_fields", id |-> app_id, fields |-> fields,
                                count |-> count, lang |-> lang, country |-> country,
                                sort |-> sort]>>, rd)
             ELSE Ended(svc, <<[op |-> "reviews_analyze", id |-> app_id,
                                count |-> count, lang |-> lang, country |-> country,
                                sort |-> sort]>>, rd)

_handle_developer(args, cfg, svc) ==
    LET developer_id == Get(args, "developerId")
        count   == _parse_int(Get(args, "count"), cfg.DEFAULT_DEVELOPER_COUNT)
        lang    == GetDefault(args, "lang", cfg.DEFAULT_LANGUAGE)
        country == GetDefault(args, "country", cfg.DEFAULT_COUNTRY)
        fields  == _parse_fields(Get(args, "fields"))
        rd      == {"developerId", "count", "lang", "country", "fields"}
    IN  IF Falsy(developer_id)
        THEN Returned(400, [error |-> "Missing required 'developerId' parameter."], <<>>,
                      {"developerId"})
        ELSE IF fields # <<>>
             THEN Ended(svc, <<[op |-> "developer_get_fields", id |-> developer_id,
                                fields |-> fields, count |-> count, lang |-> lang,
                                country |-> country]>>, rd)
             ELSE Ended(svc, <<[op |-> "developer_analyze", id |-> developer_id,
                                count |-> count, lang |-> lang, country |-> country]>>, rd)

\* the keys of ACTION_MAP
ACTION_MAP == {<<"a", "p", "p">>, <<"s", "e", "a", "r", "c", "h">>,
               <<"r", "e", "v", "i", "e", "w", "s">>,
               <<"d", "e", "v", "e", "l", "o", "p", "e", "r">>}

\* ACTION_MAP[action](args)
handler_fn(action, args, cfg, svc) ==
    CASE action = <<"a", "p", "p">> -> _handle_app(args, cfg, svc)
      [] action = <<"s", "e", "a", "r", "c", "h">> -> _handle_search(args, cfg, svc)
      [] action = <<"r", "e", "v", "i", "e", "w", "s">> -> _handle_reviews(args, cfg, svc)
      [] action = <<"d", "e", "v", "e", "l", "o", "p", "e", "r">> ->
             _handle_developer(args, cfg, svc)

----------------------------------------------------------------------------
(* api/index.py: the envelope *)

CorsHeaders == {"Content-Type", "Access-Control-Allow-Origin"}

\* json.dumps raises TypeError on a value it cannot serialize
Serializable(pl) == "data" \notin DOMAIN pl \/ pl.data.json

_build_response(st, pl, extra_headers) ==
    IF Serializable(pl)
    THEN [kind |-> "response", body |-> [json |-> pl], status |-> st,
          headers |-> CorsHeaders \cup extra_headers]
    ELSE [kind |-> "raise", type |-> "TypeError"]

NoResponse == [kind |-> "none"]

----------------------------------------------------------------------------
(* api/index.py: handler(request) *)

\* the whole of handler(request) when the scraper behaves as svc: the response
\* (or the exception that leaves handler), the parameters read, the scraper
\* operations invoked and how the scraper call ended
Dispatch(req, cfg, svc) ==
    LET action == lower(IF Falsy(Get(req.args, "action")) THEN <<>>
                        ELSE Get(req.args, "action"))
        r      == handler_fn(action, req.args, cfg, svc)
        made   == IF r.calls # <<>> THEN svc ELSE NoCall
    IN  IF req.method = "OPTIONS"
        THEN [response |-> _build_response(204, <<>>,
                              {"Access-Control-Allow-Origin", "Access-Control-Allow-Methods",
                               "Access-Control-Allow-Headers"}),
              reads |-> {}, calls |-> <<>>, outcome |-> NoCall]
        ELSE IF action = <<>>
        THEN [response |-> _build_response(400,
                              [error |-> "Missing 'action' query parameter."], {}),
              reads |-> {"action"}, calls |-> <<>>, outcome |-> NoCall]
        ELSE IF action \notin ACTION_MAP
        THEN [response |-> _build_response(400, [error |-> "Unsupported action."], {}),
              reads |-> {"action"}, calls |-> <<>>, outcome |-> NoCall]
        ELSE IF r.kind = "return"
        THEN [response |-> _build_response(r.status, r.payload, {}),
              reads |-> {"action"} \cup r.reads, calls |-> r.calls, outcome |-> made]
        ELSE IF r.type = "GPlayScraperError"
        THEN [response |-> _build_response(502, [error |-> r.msg], {}),
              reads |-> {"action"} \cup r.reads, calls |-> r.calls, outcome |-> made]
        ELSE [response |-> _build_response(500,
                              [error |-> "Unexpected server error.", details |-> r.msg], {}),
              reads |-> {"action"} \cup r.reads, calls |-> r.calls, outcome |-> made]

----------------------------------------------------------------------------
(* The requests the transport delivers *)

Methods == {"GET", "POST", "OPTIONS"}

ParamValues ==
    [action |-> {<<>>, <<"a", "p", "p">>, <<"A", "P", "P">>,
                 <<"S", "e", "a", "r", "c", "h">>, <<"r", "e", "v", "i", "e", "w", "s">>,
                 <<"R", "E", "V", "I", "E", "W", "S">>,
                 <<"d", "e", "v", "e", "l", "o", "p", "e", "r">>, <<"f", "o", "o">>},
     appId |-> {<<>>, <<"x">>},
     query |-> {<<>>, <<"q">>},
     developerId |-> {<<>>, <<"7">>},
     fields |-> {<<>>, <<",">>, <<" ", ",", " ">>, <<"a">>,
                 <<"a", ",", ",", " ", "b", " ", ",", "a">>},
     count |-> {<<>>, <<"2", "0">>, <<"a", "b", "c">>, <<" ", "-", "1", "_", "5">>},
     lang |-> {<<>>, <<"f", "r">>},
     country |-> {<<>>, <<"d", "e">>},
     sort |-> {<<>>, <<"R", "A", "T", "I", "N", "G">>},
     assets |-> {<<>>, <<"L", "A", "R", "G", "E">>}]

\* the mappings from the keys in K to one of the values of each key
RECURSIVE ArgsOver(_)
ArgsOver(K) ==
    IF K = {} THEN {<<>>}
    ELSE LET k == CHOOSE x \in K : TRUE
         IN  {(k :> v) @@ f : v \in ParamValues[k], f \in ArgsOver(K \ {k})}

Requests ==
    {[method |-> m, args |-> a] :
        m \in Methods,
        a \in UNION {ArgsOver(K) : K \in {S \in SUBSET DOMAIN ParamValues :
                                                Cardinality(S) <= MaxParams}}}

NoRequest == [method |-> "none", args |-> <<>>]

\* the values the imported Config may hold
Configs ==
    {[DEFAULT_LANGUAGE |-> <<"e", "n">>, DEFAULT_COUNTRY |-> <<"u", "s">>,
      DEFAULT_REVIEWS_SORT |-> <<"N", "E", "W", "E", "S", "T">>,
      DEFAULT_SEARCH_COUNT |-> c[1], DEFAULT_REVIEWS_COUNT |-> c[2],
      DEFAULT_DEVELOPER_COUNT |-> c[3]] : c \in {<<100, 100, 100>>, <<10, 50, 30>>}}

----------------------------------------------------------------------------
(* The synchronous front end as a state machine *)

ApiInit ==
    /\ Config \in Configs
    /\ pc = "idle"
    /\ request = NoRequest
    /\ reads = {}
    /\ calls = <<>>
    /\ outcome = NoCall
    /\ response = NoResponse

ParseIdle ==
    /\ raw = None
    /\ parsed = [ran |-> {}, api |-> <<>>, ui |-> <<>>]

\* GPlayScraperUI.__init__ and _build_layout
UiIdle ==
    /\ status_var = "Ready"
    /\ result_text = <<>>
    /\ runs = <<>>
    /\ after_queue = <<>>
    /\ dialog = [kind |-> "none"]

Init == ApiInit /\ ParseIdle /\ UiIdle

\* the transport calls handler(request)
Receive ==
    /\ pc = "idle"
    /\ \E req \in Requests : request' = req
    /\ pc' = "received"
    /\ UNCHANGED <<Config, reads, calls, outcome, response, parsevars, uivars>>

\* handler(request) runs to its end
handler ==
    /\ pc = "received"
    /\ \E svc \in ServiceBehaviours :
          LET d == Dispatch(request, Config, svc) IN
          /\ response' = d.response
          /\ reads' = d.reads
          /\ calls' = d.calls
          /\ outcome' = d.outcome
    /\ pc' = "responded"
    /\ UNCHANGED <<Config, request, parsevars, uivars>>

Next == Receive \/ handler

Spec == Init /\ [][Next]_vars

----------------------------------------------------------------------------
(* examples/ui_app.py: the field list of the entry *)

_split_fields(r) == StripNonEmpty(split(r))

----------------------------------------------------------------------------
(* The field-list parsers applied to every raw string of bounded length *)

RawChars == {"a", "b", " ", ","}

RECURSIVE StringsUpTo(_)
StringsUpTo(n) ==
    IF n = 0 THEN {<<>>}
    ELSE StringsUpTo(n - 1)
         \cup {Append(s, c) : s \in {t \in StringsUpTo(n - 1) : Len(t) = n - 1},
                               c \in RawChars}

RawStrings ==
    StringsUpTo(MaxRawLen) \cup {None, <<"a", ",", ",", " ", "b", " ", ",", "a">>}

ParseInit ==
    /\ ApiInit
    /\ UiIdle
    /\ raw \in RawStrings
    /\ parsed = [ran |-> {}, api |-> <<>>, ui |-> <<>>]

\* _parse_fields(args.get("fields"))
ParseFields ==
    /\ "api" \notin parsed.ran
    /\ parsed' = [parsed EXCEPT !.ran = @ \cup {"api"}, !.api = _parse_fields(raw)]
    /\ UNCHANGED <<Config, apivars, raw, uivars>>

\* self._split_fields(fields_var.get()): the entry always holds a str
SplitFields ==
    /\ "ui" \notin parsed.ran
    /\ raw # None
    /\ parsed' = [parsed EXCEPT !.ran = @ \cup {"ui"}, !.ui = _split_fields(raw)]
    /\ UNCHANGED <<Config, apivars, raw, uivars>>

ParseNext == ParseFields \/ SplitFields

ParseSpec == ParseInit /\ [][ParseNext]_vars

----------------------------------------------------------------------------
(* examples/ui_app.py: the interactive front end *)

Tabs == {"app", "search", "reviews", "developer"}

\* what the user has typed in the identifier entry and in the fields entry
\* when a button is pressed
EntryIds == {<<>>, <<"x">>}

EntryFields == {<<>>, <<" ", ",", " ">>, <<"a">>}

AnalyzeOp == [app |-> "app_analyze", search |-> "search_analyze",
              reviews |-> "reviews_analyze", developer |-> "developer_analyze"]

GetFieldsOp == [app |-> "app_get_fields", search |-> "search_get_fields",
                reviews |-> "reviews_get_fields", developer |-> "developer_get_fields"]

\* the behaviours of the scraper on a call of a worker thread
UiBehaviours == {b \in ServiceBehaviours : b.kind = "raise" => b.msg = "not found"}

\* _run_async(func, *args): the status, the viewer, and the thread it starts
\* with func and args in its closure
_run_async(op, id, fields) ==
    /\ status_var' = "Running..."
    /\ result_text' = <<>>
    /\ runs' = Append(runs, [op |-> op, id |-> id, fields |-> fields, pc |-> "started",
                             outcome |-> NoCall, exc |-> "unbound", notified |-> <<>>])
    /\ UNCHANGED <<after_queue, dialog>>

\* the Analyze App, Search Apps, Get Reviews and List Apps buttons
PressAnalyze ==
    /\ Len(runs) < MaxRuns
    /\ \E tab \in Tabs, id \in EntryIds : _run_async(AnalyzeOp[tab], id, <<>>)
    /\ UNCHANGED <<Config, apivars, parsevars>>

\* the Get Fields buttons: _handle_app_fields, _handle_search_fields,
\* _handle_reviews_fields, _handle_developer_fields
PressGetFields ==
    /\ \E tab \in Tabs, id \in EntryIds, r \in EntryFields :
          LET fields == _split_fields(r) IN
          IF fields = <<>>
          THEN /\ dialog' = [kind |-> "showinfo", message |-> "Fields Required"]
               /\ UNCHANGED <<status_var, result_text, runs, after_queue>>
          ELSE /\ Len(runs) < MaxRuns
               /\ _run_async(GetFieldsOp[tab], id, fields)
    /\ UNCHANGED <<Config, apivars, parsevars>>

\* task(), up to the root.after call: the scraper call ends as svc and the
\* branch it takes schedules its lambda; on a raise the thread is inside the
\* except clause, where exc is bound
TaskCall(i) ==
    /\ runs[i].pc = "started"
    /\ \E svc \in UiBehaviours :
          /\ runs' = [runs EXCEPT ![i].pc = "scheduled", ![i].outcome = svc,
                                  ![i].exc = IF svc.kind = "raise" THEN "bound"
                                             ELSE "unbound"]
          /\ after_queue' = Append(after_queue,
                 [run |-> i,
                  kind |-> IF svc.kind = "return" THEN "success" ELSE "error",
                  prefix |-> IF svc.kind = "return" THEN ""
                             ELSE IF svc.type = "GPlayScraperError" THEN "Scraper error: "
                             ELSE "Unexpected error: "])
    /\ UNCHANGED <<status_var, result_text, dialog, Config, apivars, parsevars>>

\* task() ends: leaving an `except ... as exc` clause unbinds exc, the variable
\* the scheduled lambda reads when it runs
TaskExit(i) ==
    /\ runs[i].pc = "scheduled"
    /\ runs' = [runs EXCEPT ![i].pc = "exited",
                            ![i].exc = IF @ = "bound" THEN "deleted" ELSE @]
    /\ UNCHANGED <<status_var, result_text, after_queue, dialog, Config, apivars, parsevars>>

\* _handle_success(data): _display_result inserts the pretty-printed payload at
\* "1.0", above what the viewer holds, then the status is set; json.dumps
\* raising leaves the callback before either
_handle_success(i) ==
    /\ runs' = [runs EXCEPT ![i].notified = Append(@, "success")]
    /\ IF runs[i].outcome.data.json
       THEN /\ result_text' = <<i>> \o result_text
            /\ status_var' = "Finished"
       ELSE UNCHANGED <<result_text, status_var>>
    /\ UNCHANGED dialog

\* _handle_error(message) and _show_error(message)
_handle_error(i, message) ==
    /\ runs' = [runs EXCEPT ![i].notified = Append(@, "error")]
    /\ status_var' = "Error"
    /\ dialog' = [kind |-> "showerror", message |-> message]
    /\ UNCHANGED result_text

\* the Tk main loop runs the next scheduled callback; the lambda of a failed
\* run evaluates exc first and raises NameError if task() has left the except
\* clause, in which case _handle_error is not called
MainLoop ==
    /\ after_queue # <<>>
    /\ LET cb == Head(after_queue) IN
       /\ after_queue' = Tail(after_queue)
       /\ IF cb.kind = "success"
          THEN _handle_success(cb.run)
          ELSE IF runs[cb.run].exc = "deleted"
               THEN UNCHANGED <<runs, status_var, result_text, dialog>>
               ELSE _handle_error(cb.run, <<cb.prefix, runs[cb.run].outcome.msg>>)
    /\ UNCHANGED <<Config, apivars, parsevars>>

UiNext ==
    \/ PressAnalyze
    \/ PressGetFields
    \/ \E i \in DOMAIN runs : TaskCall(i)
    \/ \E i \in DOMAIN runs : TaskExit(i)
    \/ MainLoop

\* the front end reads Config only to fill its entries, whose contents are the
\* user's by the time a button is pressed: one configuration stands for all
UiInit ==
    /\ Init
    /\ Config.DEFAULT_SEARCH_COUNT # Config.DEFAULT_REVIEWS_COUNT

UiSpec == UiInit /\ [][UiNext]_vars

----------------------------------------------------------------------------
(* Properties of the synchronous front end *)

\* the pairs of a letter's two cases
CasePairs == {{"a", "A"}, {"p", "P"}, {"s", "S"}, {"e", "E"}, {"r", "R"}, {"c", "C"},
              {"h", "H"}, {"v", "V"}, {"i", "I"}, {"w", "W"}, {"d", "D"}, {"l", "L"},
              {"o", "O"}, {"f", "F"}}

SameIgnoringCase(s, t) ==
    /\ Len(s) = Len(t)
    /\ \A i \in DOMAIN s : s[i] = t[i] \/ {s[i], t[i]} \in CasePairs

\* the supported action the request's action value spells, whatever its case;
\* the value itself if it spells none, the empty string if it is absent
ActionOf(req) ==
    IF "action" \notin DOMAIN req.args THEN <<>>
    ELSE IF \E a \in ACTION_MAP : SameIgnoringCase(a, req.args["action"])
         THEN CHOOSE a \in ACTION_MAP : SameIgnoringCase(a, req.args["action"])
         ELSE req.args["action"]

\* the required identifier of each action
RequiredId(action) ==
    CASE action = <<"a", "p", "p">> -> "appId"
      [] action = <<"s", "e", "a", "r", "c", "h">> -> "query"
      [] action = <<"r", "e", "v", "i", "e", "w", "s">> -> "appId"
      [] action = <<"d", "e", "v", "e", "l", "o", "p", "e", "r">> -> "developerId"

AnalyzeOps == {"app_analyze", "search_analyze", "reviews_analyze", "developer_analyze"}

GetFieldsOps == {"app_get_fields", "search_get_fields", "reviews_get_fields",
                 "developer_get_fields"}

OpsOf(action) ==
    CASE action = <<"a", "p", "p">> -> [analyze |-> "app_analyze", get |-> "app_get_fields"]
      [] action = <<"s", "e", "a", "r", "c", "h">> ->
             [analyze |-> "search_analyze", get |-> "search_get_fields"]
      [] action = <<"r", "e", "v", "i", "e", "w", "s">> ->
             [analyze |-> "reviews_analyze", get |-> "reviews_get_fields"]
      [] action = <<"d", "e", "v", "e", "l", "o", "p", "e", "r">> ->
             [analyze |-> "developer_analyze", get |-> "developer_get_fields"]

\* the request got past the pre-flight branch and names a supported action
Routed == /\ pc = "responded"
          /\ request.method # "OPTIONS"
          /\ ActionOf(request) \in ACTION_MAP

MissingId == \/ RequiredId(ActionOf(request)) \notin DOMAIN request.args
             \/ request.args[RequiredId(ActionOf(request))] = <<>>

IsError(st) == /\ response.kind = "response"
               /\ response.status = st
               /\ "error" \in DOMAIN response.body.json
               /\ "data" \notin DOMAIN response.body.json

\* C1: a routed request (any method but the OPTIONS pre-flight) whose required
\* identifier is absent or empty is answered 400 with an error body, and no
\* scraper operation is invoked, whatever its other parameters are.
C1_MissingIdRejected ==
    (Routed /\ MissingId) => (IsError(400) /\ calls = <<>> /\ outcome = NoCall)

\* an empty-string identifier sent along with field and count parameters
C1_Witness ==
    /\ Routed /\ MissingId
    /\ RequiredId(ActionOf(request)) \in DOMAIN request.args
    /\ Cardinality(DOMAIN request.args) = MaxParams
    /\ response.kind = "response" /\ response.status = 400

\* the raw fields value holds a field name: a character that is neither a comma
\* nor whitespace
HasFieldName(r) == r # None /\ \E i \in DOMAIN r : r[i] \notin ({","} \cup Whitespace)

\* C2: a routed request that passes the identifier validation invokes exactly
\* one scraper operation, that of its action: the get_fields one iff the fields
\* parameter holds a field name, the analyze one iff it is absent or holds none.
C2_OneOperationByFields ==
    (Routed /\ ~MissingId) =>
        /\ Len(calls) = 1
        /\ calls[1].op \in AnalyzeOps \cup GetFieldsOps
        /\ calls[1].op = OpsOf(ActionOf(request)).get
               <=> HasFieldName(Get(request.args, "fields"))
        /\ calls[1].op = OpsOf(ActionOf(request)).analyze
               <=> ~HasFieldName(Get(request.args, "fields"))

\* a fields value of blanks and commas only goes to the analyze operation
C2_Witness ==
    /\ Routed /\ ~MissingId
    /\ Get(request.args, "fields") = <<" ", ",", " ">>
    /\ Len(calls) = 1 /\ calls[1].op \in AnalyzeOps

\* C3: handler gives the transport a response for every request and every
\* behaviour of the scraper; no exception leaves it.
C3_NothingEscapes == pc = "responded" => response.kind = "response"

\* C4: the response is classified by how the scraper call ended: 200 and
\* {data: payload} on a normal return, 502 and {error: message} on a
\* GPlayScraperError, 500 and {error: "Unexpected server error.", details:
\* message} on any other exception.
C4_OutcomeClassified ==
    (pc = "responded" /\ outcome.kind # "none") =>
        /\ response.kind = "response"
        /\ outcome.kind = "return" =>
               /\ response.status = 200
               /\ response.body.json = [data |-> outcome.data]
        /\ (outcome.kind = "raise" /\ outcome.type = "GPlayScraperError") =>
               /\ response.status = 502
               /\ response.body.json = [error |-> outcome.msg]
        /\ (outcome.kind = "raise" /\ outcome.type # "GPlayScraperError") =>
               /\ response.status = 500
               /\ response.body.json =
                      [error |-> "Unexpected server error.", details |-> outcome.msg]

\* the request with its action parameter replaced by the lower-case form
Lowered(req) ==
    [req EXCEPT !.args = [k \in DOMAIN req.args |->
                             IF k = "action" THEN ActionOf(req) ELSE req.args[k]]]

\* C5: an action that lower-cased is a supported one is answered exactly as its
\* lower-case form is (same response, same scraper operation); any other
\* action value, absent and empty included, is answered 400 with an error body
\* after reading the action parameter alone and invoking no scraper operation.
C5_ActionLookup ==
    (pc = "responded" /\ request.method # "OPTIONS") =>
        /\ ActionOf(request) \in ACTION_MAP =>
               /\ "action" \in reads /\ RequiredId(ActionOf(request)) \in reads
               /\ \E svc \in ServiceBehaviours :
                      LET d == Dispatch(Lowered(request), Config, svc)
                      IN  /\ response = d.response
                          /\ calls = d.calls
                          /\ reads = d.reads
               /\ \A i \in DOMAIN calls :
                      calls[i].op \in {OpsOf(ActionOf(request)).analyze,
                                       OpsOf(ActionOf(request)).get}
        /\ ActionOf(request) \notin ACTION_MAP =>
               /\ IsError(400)
               /\ reads = {"action"}
               /\ calls = <<>>

\* "APP" with an identifier reaches the app operation
C5_Witness ==
    /\ pc = "responded" /\ request.method # "OPTIONS"
    /\ Get(request.args, "action") = <<"A", "P", "P">>
    /\ Len(calls) = 1 /\ calls[1].op = "app_analyze"
    /\ response.kind = "response" /\ response.status = 200

\* an unsupported action sent along with other parameters
C5_WitnessUnsupported ==
    /\ pc = "responded" /\ request.method # "OPTIONS"
    /\ Get(request.args, "action") = <<"f", "o", "o">>
    /\ "appId" \in DOMAIN request.args
    /\ response.kind = "response" /\ response.status = 400

CountActions == {<<"s", "e", "a", "r", "c", "h">>, <<"r", "e", "v", "i", "e", "w", "s">>,
                 <<"d", "e", "v", "e", "l", "o", "p", "e", "r">>}

\* each action's own default count
DefaultCount(action) ==
    CASE action = <<"s", "e", "a", "r", "c", "h">> -> Config.DEFAULT_SEARCH_COUNT
      [] action = <<"r", "e", "v", "i", "e", "w", "s">> -> Config.DEFAULT_REVIEWS_COUNT
      [] action = <<"d", "e", "v", "e", "l", "o", "p", "e", "r">> ->
             Config.DEFAULT_DEVELOPER_COUNT

\* C10: for search, reviews and developer the request is dispatched whatever
\* its count is, and the count handed to the scraper is an integer: the value
\* of the count parameter when it is an integer string ("20" gives 20), the
\* action's own default when it is absent, empty or not an integer ("abc").
C10_CountParsed ==
    (Routed /\ ~MissingId /\ ActionOf(request) \in CountActions) =>
        LET count == Get(request.args, "count") IN
        /\ response.kind = "response" => response.status # 400
        /\ Len(calls) = 1
        /\ calls[1].count \in Int
        /\ count = <<"2", "0">> => calls[1].count = 20
        /\ count = <<" ", "-", "1", "_", "5">> => calls[1].count = 0 - 15
        /\ count \in {None, <<>>, <<"a", "b", "c">>} =>
               calls[1].count = DefaultCount(ActionOf(request))

\* "abc" sent to reviews, whose default differs from the other two
C10_Witness ==
    /\ Routed /\ ~MissingId
    /\ ActionOf(request) = <<"r", "e", "v", "i", "e", "w", "s">>
    /\ Get(request.args, "count") = <<"a", "b", "c">>
    /\ Config.DEFAULT_REVIEWS_COUNT # Config.DEFAULT_SEARCH_COUNT
    /\ Len(calls) = 1 /\ calls[1].count = Config.DEFAULT_REVIEWS_COUNT

\* the value of the parameter key when it is present and non-empty, dflt otherwise
ValueOrDefault(key, dflt) ==
    IF key \in DOMAIN request.args /\ request.args[key] # <<>>
    THEN request.args[key] ELSE dflt

\* C11: the language and the country handed to the scraper, and the sort handed
\* to the reviews operations, are the declared default when the parameter is
\* absent or empty and the caller's value otherwise; the assets handed to the
\* app operations are null when the parameter is absent or empty; so none of
\* them is ever the empty string.
C11_DefaultsSubstituted ==
    (Routed /\ ~MissingId) =>
        /\ Len(calls) = 1
        /\ calls[1].lang = ValueOrDefault("lang", Config.DEFAULT_LANGUAGE)
        /\ calls[1].country = ValueOrDefault("country", Config.DEFAULT_COUNTRY)
        /\ calls[1].lang # <<>> /\ calls[1].country # <<>>
        /\ ActionOf(request) = <<"r", "e", "v", "i", "e", "w", "s">> =>
               /\ calls[1].sort = ValueOrDefault("sort", Config.DEFAULT_REVIEWS_SORT)
               /\ calls[1].sort # <<>>
        /\ ActionOf(request) = <<"a", "p", "p">> =>
               /\ calls[1].assets = ValueOrDefault("assets", None)
               /\ calls[1].assets # <<>>


----------------------------------------------------------------------------
(* Properties of the interactive front end *)

\* the thread of run i has ended and its callback has been run by the main loop
Settled(i) ==
    /\ runs[i].pc = "exited"
    /\ \A k \in DOMAIN after_queue : after_queue[k].run # i

\* C6: every run delivers exactly one terminal notification on the main loop,
\* in every interleaving: _handle_success when the call returned, _handle_error
\* when it raised; a failed run ends with the status "Error", not "Running...".
C6_OneNotificationPerRun ==
    \A i \in DOMAIN runs :
        /\ Len(runs[i].notified) <= 1
        /\ Settled(i) =>
               /\ runs[i].notified =
                      IF runs[i].outcome.kind = "return" THEN <<"success">> ELSE <<"error">>
               /\ (Len(runs) = 1 /\ runs[i].outcome.kind = "raise") => status_var = "Error"

\* C7: the result viewer holds nothing or the payload of exactly one run, also
\* when two runs are started before the first is delivered, and no run delivers
\* more than one result.
C7_NoMixedOutput ==
    /\ Len(result_text) <= 1
    /\ \A i \in DOMAIN runs : Len(runs[i].notified) <= 1

\* C8: no run invokes a scraper operation with an empty identifier.
C8_NoCallWithoutId ==
    \A i \in DOMAIN runs : runs[i].pc # "started" => runs[i].id # <<>>

\* run i has been started and its result has not been delivered
InFlight(i) == runs[i].notified = <<>>

\* C12: the status is "Running..." whenever a started run has not delivered its
\* result; it is "Finished" or "Error" only when no run is in flight.
C12_StatusReflectsRuns ==
    (\E i \in DOMAIN runs : InFlight(i)) => status_var = "Running..."


----------------------------------------------------------------------------
(* Properties of the field-list parsers *)

\* the results computed so far
Results == {parsed[f] : f \in parsed.ran}

RECURSIVE Flatten(_)
Flatten(ss) == IF ss = <<>> THEN <<>> ELSE Head(ss) \o Flatten(Tail(ss))

Letters(s) == SelectSeq(s, LAMBDA c : c \notin ({","} \cup Whitespace))

\* the ends of the comma-separated segments of r that hold a field name
NamedSegmentEnds(r) ==
    {e \in 1..(Len(r) + 1) :
        /\ e = Len(r) + 1 \/ r[e] = ","
        /\ \E b \in 1..e :
              /\ \A k \in b..(e - 1) : r[k] # ","
              /\ \E k \in b..(e - 1) : r[k] \notin Whitespace}

\* res lists the trimmed non-empty segments of r in their order, each as often
\* as it occurs
TrimmedSegments(r, res) ==
    /\ \A i \in DOMAIN res :
          /\ res[i] # <<>>
          /\ \A k \in DOMAIN res[i] : res[i][k] # ","
          /\ res[i][1] \notin Whitespace /\ res[i][Len(res[i])] \notin Whitespace
    /\ Len(res) = Cardinality(NamedSegmentEnds(r))
    /\ Letters(Flatten(res)) = Letters(r)

\* C9 as stated: the result lists the trimmed non-empty segments with the
\* duplicates removed, so "a,, b ,a" gives ["a", "b"].
C9_Deduplicated ==
    \A res \in Results :
        /\ \A i, j \in DOMAIN res : res[i] = res[j] => i = j
        /\ raw = <<"a", ",", ",", " ", "b", " ", ",", "a">> => res = <<<<"a">>, <<"b">>>>

\* C9 as amended: the result lists the comma-separated segments trimmed of
\* surrounding whitespace, the empty ones dropped, in their order and with the
\* duplicates kept, so "a,, b ,a" gives ["a", "b", "a"]; an absent or empty raw
\* value gives the empty list.
C9_TrimmedSegmentsKept ==
    \A res \in Results :
        /\ raw \in {None, <<>>} => res = <<>>
        /\ raw \notin {None, <<>>} => TrimmedSegments(raw, res)
        /\ raw = <<"a", ",", ",", " ", "b", " ", ",", "a">> =>
               res = <<<<"a">>, <<"b">>, <<"a">>>>
        /\ raw = <<" ", "a", " ", "b">> => res = <<<<"a", " ", "b">>>>

\* both parsers have run on "a,, b ,a"
C9_Witness ==
    /\ raw = <<"a", ",", ",", " ", "b", " ", ",", "a">>
    /\ parsed.ran = {"api", "ui"}
    /\ parsed.api = <<<<"a">>, <<"b">>, <<"a">>>>
    /\ parsed.ui = parsed.api

====
